---- MODULE Spec2Model ----
(***************************************************************************)
(* A model of smk's GPU shader wrappers (src/src/smk/Shader.cpp) and of    *)
(* the sprite geometry construction (src/src/smk/Sprite.cpp).              *)
(*                                                                         *)
(* The OpenGL driver is the environment.  Its part of the state is kept in *)
(* the gl* variables: which object names it has handed out, the compile    *)
(* and link status of each, how often each was released, and the program   *)
(* currently in use.  Every creation hands out a fresh name, so a name     *)
(* stands for one creation.  What the driver answers (creation failure,    *)
(* compile status, link status) is chosen nondeterministically.            *)
(*                                                                         *)
(* C++ objects live in slots: Shaders and Programs name the storage of a   *)
(* Shader or a ShaderProgram object, shader_live / program_live tell       *)
(* whether an object currently lives there.                                *)
(*                                                                         *)
(* Texture coordinates are exact rationals [n, d]; the narrowing of the    *)
(* double quotient to float in Sprite.cpp is not modelled.                 *)
(***************************************************************************)
EXTENDS Integers, Sequences, FiniteSets, TLC

\* ------------------------------------------------------------------ bounds
\* Number of object names the driver can hand out before creation fails.
MaxHandles == 3
\* Cap of the per-program driver query counter.
MaxQueries == 2
\* Largest texture / framebuffer width and height.
MaxDim == 2
\* Largest rectangle coordinate.
MaxCoord == 2

Shaders == {1, 2}
Programs == {1, 2}
\* The ShaderProgram slot the call sequences of SpecCalls are made on.
CallPrograms == {1}
Handles == 1..MaxHandles
\* glDelete* may be called with the name 0, so release calls are counted for it too.
Handles0 == 0..MaxHandles
\* "u" is an active uniform of every successfully linked program, "nope" is not.
Names == {"u", "nope"}
ActiveUniforms == {"u"}

VARIABLES
  shader_live,      \* [Shaders -> BOOLEAN]: a Shader object lives in the slot
  shader_handle_,   \* [Shaders -> Nat]: Shader::handle_
  program_live,     \* [Programs -> BOOLEAN]
  program_handle_,  \* [Programs -> Nat]: ShaderProgram::handle_
  uniforms_,        \* [Programs -> map name -> location]: ShaderProgram::uniforms_
  queries,          \* [Programs -> [Names -> Nat]]: glGetUniformLocation calls
                    \* issued by the object in the slot, per name
  glNext,           \* next fresh object name of the driver
  glShader,         \* [Handles -> {"none","compiled","failed"}]
  glProgram,        \* [Handles -> {"none","unlinked","ok","failed"}]
  glAttached,       \* [Handles -> SUBSET Handles]: shaders attached to a program
  glReleases,       \* [Handles0 -> Nat]: glDeleteShader / glDeleteProgram calls
  glCurrent,        \* the program bound by glUseProgram
  terminated,       \* exit(EXIT_FAILURE) was called
  last,             \* the last operation: what was called, returned and printed
  sprite,           \* the Sprite: [built, tw, th, verts]
  slast             \* the last Sprite operation and its input

shaderVars == <<shader_live, shader_handle_, program_live, program_handle_,
                uniforms_, queries, glNext, glShader, glProgram, glAttached,
                glReleases, glCurrent, terminated, last>>
spriteVars == <<sprite, slast>>
vars == <<shader_live, shader_handle_, program_live, program_handle_,
          uniforms_, queries, glNext, glShader, glProgram, glAttached,
          glReleases, glCurrent, terminated, last, sprite, slast>>

EmptyMap == [n \in {} |-> 0]

Op(op, obj, other, name, ret, out, msgs) ==
  [op |-> op, obj |-> obj, other |-> other, name |-> name, ret |-> ret,
   out |-> out, msgs |-> msgs]

\* ------------------------------------------------------------------ driver
\* glGetUniformLocation(h, name): -1 unless h is a successfully linked program
\* and name is one of its active uniforms.
UniformLocation(h, name) ==
  IF h \in Handles /\ glProgram[h] = "ok" /\ name \in ActiveUniforms
  THEN 2 ELSE -1

\* glDeleteShader(h) / glDeleteProgram(h): one more release call on h.
Release(h) == [glReleases EXCEPT ![h] = @ + 1]

\* std::swap(handle_, other.handle_) seen from `this` = a, `other` = b.
CopyWithoutSwap(hs, a, b) == [hs EXCEPT ![a] = hs[b]]
Swap(hs, a, b) == [x \in DOMAIN hs |-> IF x = a THEN hs[b] ELSE IF x = b THEN hs[a] ELSE hs[x]]

\* ------------------------------------------------------------------ Shader
\* Shader::Shader(std::vector<char>, GLenum) when glCreateShader returns 0:
\* the constructor throws, no object comes to life.
ShaderCtorThrows(s, via) ==
  /\ ~terminated /\ ~shader_live[s]
  /\ last' = Op(via, s, 0, "", 0, "throw", {"[Error] Impossible to create a new Shader"})
  /\ UNCHANGED <<shader_live, shader_handle_, program_live, program_handle_,
                 uniforms_, queries, glNext, glShader, glProgram, glAttached,
                 glReleases, glCurrent, terminated>>

\* The mutant of ShaderCtor: a compile error is printed but the constructor returns.
ShaderCtorNoExit(s, via, compiled) ==
  /\ ~terminated /\ ~shader_live[s]
  /\ glNext <= MaxHandles
  /\ glNext' = glNext + 1
  /\ glShader' = [glShader EXCEPT ![glNext] = IF compiled THEN "compiled" ELSE "failed"]
  /\ shader_live' = [shader_live EXCEPT ![s] = TRUE]
  /\ shader_handle_' = [shader_handle_ EXCEPT ![s] = glNext]
  /\ last' = Op(via, s, 0, "", glNext, "returned",
                IF compiled THEN {} ELSE {"[Error] compilation error: ", "log"})
  /\ UNCHANGED <<program_live, program_handle_, uniforms_, queries, glProgram,
                 glAttached, glReleases, glCurrent, terminated>>

\* Shader::Shader(std::vector<char>, GLenum) when glCreateShader returns the
\* fresh name glNext; `compiled` is the GL_COMPILE_STATUS the driver reports.
ShaderCtor(s, via, compiled) ==
  /\ ~terminated /\ ~shader_live[s]
  /\ glNext <= MaxHandles
  /\ glNext' = glNext + 1
  /\ glShader' = [glShader EXCEPT ![glNext] = IF compiled THEN "compiled" ELSE "failed"]
  /\ IF compiled
     THEN /\ shader_live' = [shader_live EXCEPT ![s] = TRUE]
          /\ shader_handle_' = [shader_handle_ EXCEPT ![s] = glNext]
          /\ last' = Op(via, s, 0, "", glNext, "returned", {})
          /\ UNCHANGED terminated
     ELSE /\ terminated' = TRUE
          /\ last' = Op(via, s, 0, "", glNext, "exit",
                        {"[Error] compilation error: ", "log"})
          /\ UNCHANGED <<shader_live, shader_handle_>>
  /\ UNCHANGED <<program_live, program_handle_, uniforms_, queries, glProgram,
                 glAttached, glReleases, glCurrent>>

\* Shader::FromString: header + content + NUL, handed to the constructor.
FromString(s) ==
  \/ ShaderCtorThrows(s, "FromString")
  \/ \E compiled \in BOOLEAN : ShaderCtor(s, "FromString", compiled)

\* Shader::FromFile: the file's text, handed to FromString.
FromFile(s) ==
  \/ ShaderCtorThrows(s, "FromFile")
  \/ \E compiled \in BOOLEAN : ShaderCtor(s, "FromFile", compiled)

\* Shader::Shader() = default: an object with handle_ = 0.
ShaderDefaultCtor(s) ==
  /\ ~terminated /\ ~shader_live[s]
  /\ shader_live' = [shader_live EXCEPT ![s] = TRUE]
  /\ shader_handle_' = [shader_handle_ EXCEPT ![s] = 0]
  /\ last' = Op("Shader()", s, 0, "", 0, "returned", {})
  /\ UNCHANGED <<program_live, program_handle_, uniforms_, queries, glNext,
                 glShader, glProgram, glAttached, glReleases, glCurrent, terminated>>

\* The mutant of ShaderDtor: glDeleteShader without the handle_ == 0 early return.
ShaderDtorUnguarded(s) ==
  /\ ~terminated /\ shader_live[s]
  /\ glReleases' = Release(shader_handle_[s])
  /\ shader_handle_' = [shader_handle_ EXCEPT ![s] = 0]
  /\ shader_live' = [shader_live EXCEPT ![s] = FALSE]
  /\ last' = Op("~Shader", s, 0, "", 0, "deleted", {})
  /\ UNCHANGED <<program_live, program_handle_, uniforms_, queries, glNext,
                 glShader, glProgram, glAttached, glCurrent, terminated>>

\* Shader::~Shader
ShaderDtor(s) ==
  /\ ~terminated /\ shader_live[s]
  /\ IF shader_handle_[s] = 0
     THEN /\ last' = Op("~Shader", s, 0, "", 0, "nothing", {})
          /\ UNCHANGED <<glReleases, shader_handle_>>
     ELSE /\ glReleases' = Release(shader_handle_[s])
          /\ shader_handle_' = [shader_handle_ EXCEPT ![s] = 0]
          /\ last' = Op("~Shader", s, 0, "", 0, "deleted", {})
  /\ shader_live' = [shader_live EXCEPT ![s] = FALSE]
  /\ UNCHANGED <<program_live, program_handle_, uniforms_, queries, glNext,
                 glShader, glProgram, glAttached, glCurrent, terminated>>

\* Shader::operator=(Shader&&): this = dst, other = src (dst = src is a self-move).
ShaderMoveAssign(dst, src) ==
  /\ ~terminated /\ shader_live[dst] /\ shader_live[src]
  /\ shader_handle_' = Swap(shader_handle_, dst, src)
  /\ last' = Op("Shader::operator=", dst, src, "", 0, "returned", {})
  /\ UNCHANGED <<shader_live, program_live, program_handle_, uniforms_, queries,
                 glNext, glShader, glProgram, glAttached, glReleases, glCurrent,
                 terminated>>

\* Shader::Shader(Shader&&): the new object starts with handle_ = 0 and calls
\* operator=(std::move(other)).
ShaderMoveCtor(dst, src) ==
  /\ ~terminated /\ ~shader_live[dst] /\ shader_live[src]
  /\ shader_live' = [shader_live EXCEPT ![dst] = TRUE]
  /\ shader_handle_' = Swap([shader_handle_ EXCEPT ![dst] = 0], dst, src)
  /\ last' = Op("Shader(Shader&&)", dst, src, "", 0, "returned", {})
  /\ UNCHANGED <<program_live, program_handle_, uniforms_, queries, glNext,
                 glShader, glProgram, glAttached, glReleases, glCurrent, terminated>>

\* ----------------------------------------------------------- ShaderProgram
\* ShaderProgram::ShaderProgram() = default: handle_ = 0, uniforms_ empty.
ProgramCtor(p) ==
  /\ ~terminated /\ ~program_live[p]
  /\ program_live' = [program_live EXCEPT ![p] = TRUE]
  /\ program_handle_' = [program_handle_ EXCEPT ![p] = 0]
  /\ uniforms_' = [uniforms_ EXCEPT ![p] = EmptyMap]
  /\ queries' = [queries EXCEPT ![p] = [n \in Names |-> 0]]
  /\ last' = Op("ShaderProgram()", p, 0, "", 0, "returned", {})
  /\ UNCHANGED <<shader_live, shader_handle_, glNext, glShader, glProgram,
                 glAttached, glReleases, glCurrent, terminated>>

\* glAttachShader(h, sh): attaches when both names are valid, a GL error otherwise.
Attach(att, h, sh) ==
  IF h \in Handles /\ sh \in Handles THEN [att EXCEPT ![h] = @ \cup {sh}] ELSE att

\* ShaderProgram::AddShader(shader): `created` is what glCreateProgram returns
\* when handle_ is zero (0 on failure, else the fresh name).
AddShader(p, s, created) ==
  /\ ~terminated /\ program_live[p] /\ shader_live[s]
  /\ IF program_handle_[p] = 0
     THEN /\ created \in {0, glNext}
          /\ created <= MaxHandles
          /\ program_handle_' = [program_handle_ EXCEPT ![p] = created]
          /\ IF created = 0
             THEN /\ UNCHANGED <<glNext, glProgram>>
                  /\ last' = Op("AddShader", p, s, "", 0, "returned",
                                {"[Error] Impossible to create a new Shader"})
             ELSE /\ glNext' = glNext + 1
                  /\ glProgram' = [glProgram EXCEPT ![created] = "unlinked"]
                  /\ last' = Op("AddShader", p, s, "", 0, "returned", {})
          /\ glAttached' = Attach(glAttached, created, shader_handle_[s])
     ELSE /\ created = 0
          /\ glAttached' = Attach(glAttached, program_handle_[p], shader_handle_[s])
          /\ last' = Op("AddShader", p, s, "", 0, "returned", {})
          /\ UNCHANGED <<program_handle_, glNext, glProgram>>
  /\ UNCHANGED <<shader_live, shader_handle_, program_live, uniforms_, queries,
                 glShader, glReleases, glCurrent, terminated>>

\* The mutant of Link: creates the program lazily when handle_ is zero, the way
\* AddShader does.
LinkCreatesProgram(p, result) ==
  /\ ~terminated /\ program_live[p]
  /\ glNext <= MaxHandles
  /\ program_handle_' = [program_handle_ EXCEPT ![p] =
                           IF @ = 0 THEN glNext ELSE @]
  /\ glNext' = IF program_handle_[p] = 0 THEN glNext + 1 ELSE glNext
  /\ glProgram' = [glProgram EXCEPT ![program_handle_'[p]] =
                     IF result THEN "ok" ELSE "failed"]
  /\ last' = Op("Link", p, 0, "", 0, IF result THEN "linked" ELSE "failed",
                IF result THEN {} ELSE {"[Error] linkage error", "log"})
  /\ UNCHANGED <<shader_live, shader_handle_, program_live, uniforms_, queries,
                 glShader, glAttached, glReleases, glCurrent, terminated>>

\* ShaderProgram::Link(): `result` tells whether the GL_LINK_STATUS read back is
\* GL_TRUE.  With handle_ = 0 both GL calls fail and `result` is read
\* uninitialized, so either value may be seen.  A program with nothing
\* attached does not link.
Link(p, result) ==
  /\ ~terminated /\ program_live[p]
  /\ (program_handle_[p] # 0 /\ glAttached[program_handle_[p]] = {}) => ~result
  /\ glProgram' = IF program_handle_[p] = 0 THEN glProgram
                  ELSE [glProgram EXCEPT ![program_handle_[p]] =
                          IF result THEN "ok" ELSE "failed"]
  /\ last' = Op("Link", p, 0, "", 0, IF result THEN "linked" ELSE "failed",
                IF result THEN {} ELSE {"[Error] linkage error", "log"})
  /\ UNCHANGED <<shader_live, shader_handle_, program_live, program_handle_,
                 uniforms_, queries, glNext, glShader, glAttached, glReleases,
                 glCurrent, terminated>>

\* The mutant of Uniform: the location found is returned but not stored.
UniformNoStore(p, name, via) ==
  /\ ~terminated /\ program_live[p]
  /\ IF name \notin DOMAIN uniforms_[p]
     THEN LET r == UniformLocation(program_handle_[p], name) IN
          /\ queries[p][name] < MaxQueries
          /\ queries' = [queries EXCEPT ![p][name] = @ + 1]
          /\ last' = Op(via, p, 0, name, r, "queried",
                        IF r < 0 THEN {"[Error] Uniform doesn't exist in program"}
                        ELSE {})
     ELSE /\ last' = Op(via, p, 0, name, uniforms_[p][name], "cached", {})
          /\ UNCHANGED queries
  /\ UNCHANGED <<shader_live, shader_handle_, program_live, program_handle_,
                 uniforms_, glNext, glShader, glProgram, glAttached, glReleases,
                 glCurrent, terminated>>

\* ShaderProgram::Uniform(name); `via` names the caller (Uniform itself or a
\* SetUniform overload, which hands the result to glUniform*).
Uniform(p, name, via) ==
  /\ ~terminated /\ program_live[p]
  /\ IF name \notin DOMAIN uniforms_[p]
     THEN LET r == UniformLocation(program_handle_[p], name) IN
          /\ queries[p][name] < MaxQueries
          /\ queries' = [queries EXCEPT ![p][name] = @ + 1]
          /\ uniforms_' = [uniforms_ EXCEPT ![p] =
                             [n \in DOMAIN @ \cup {name} |->
                                IF n = name THEN r ELSE @[n]]]
          /\ last' = Op(via, p, 0, name, r, "queried",
                        IF r < 0 THEN {"[Error] Uniform doesn't exist in program"}
                        ELSE {})
     ELSE /\ last' = Op(via, p, 0, name, uniforms_[p][name], "cached", {})
          /\ UNCHANGED <<uniforms_, queries>>
  /\ UNCHANGED <<shader_live, shader_handle_, program_live, program_handle_,
                 glNext, glShader, glProgram, glAttached, glReleases, glCurrent,
                 terminated>>

\* ShaderProgram::SetUniform(name, ...): every overload is glUniform*(Uniform(name), ...).
SetUniform(p, name) == Uniform(p, name, "SetUniform")

\* ShaderProgram::Use(): glUseProgram(handle_)
Use(p) ==
  /\ ~terminated /\ program_live[p]
  /\ glCurrent' = program_handle_[p]
  /\ last' = Op("Use", p, 0, "", 0, "returned", {})
  /\ UNCHANGED <<shader_live, shader_handle_, program_live, program_handle_,
                 uniforms_, queries, glNext, glShader, glProgram, glAttached,
                 glReleases, terminated>>

\* ShaderProgram::Unuse(): glUseProgram(0)
Unuse(p) ==
  /\ ~terminated /\ program_live[p]
  /\ glCurrent' = 0
  /\ last' = Op("Unuse", p, 0, "", 0, "returned", {})
  /\ UNCHANGED <<shader_live, shader_handle_, program_live, program_handle_,
                 uniforms_, queries, glNext, glShader, glProgram, glAttached,
                 glReleases, terminated>>

\* ShaderProgram::GetHandle()
GetHandle(p) ==
  /\ ~terminated /\ program_live[p]
  /\ last' = Op("GetHandle", p, 0, "", program_handle_[p], "returned", {})
  /\ UNCHANGED <<shader_live, shader_handle_, program_live, program_handle_,
                 uniforms_, queries, glNext, glShader, glProgram, glAttached,
                 glReleases, glCurrent, terminated>>

\* ShaderProgram::~ShaderProgram; the members (uniforms_) die with the object.
ProgramDtor(p) ==
  /\ ~terminated /\ program_live[p]
  /\ IF program_handle_[p] = 0
     THEN /\ last' = Op("~ShaderProgram", p, 0, "", 0, "nothing", {})
          /\ UNCHANGED <<glReleases, program_handle_>>
     ELSE /\ glReleases' = Release(program_handle_[p])
          /\ program_handle_' = [program_handle_ EXCEPT ![p] = 0]
          /\ last' = Op("~ShaderProgram", p, 0, "", 0, "deleted", {})
  /\ program_live' = [program_live EXCEPT ![p] = FALSE]
  /\ uniforms_' = [uniforms_ EXCEPT ![p] = EmptyMap]
  /\ queries' = [queries EXCEPT ![p] = [n \in Names |-> 0]]
  /\ UNCHANGED <<shader_live, shader_handle_, glNext, glShader, glProgram,
                 glAttached, glCurrent, terminated>>

\* ShaderProgram::operator=(ShaderProgram&&): swaps handle_ and uniforms_.
ProgramMoveAssign(dst, src) ==
  /\ ~terminated /\ program_live[dst] /\ program_live[src]
  /\ program_handle_' = Swap(program_handle_, dst, src)
  /\ uniforms_' = Swap(uniforms_, dst, src)
  /\ last' = Op("ShaderProgram::operator=", dst, src, "", 0, "returned", {})
  /\ UNCHANGED <<shader_live, shader_handle_, program_live, queries, glNext,
                 glShader, glProgram, glAttached, glReleases, glCurrent, terminated>>

\* ShaderProgram::ShaderProgram(ShaderProgram&&): the new object starts with
\* handle_ = 0 and an empty uniforms_, then calls operator=(std::move(other)).
ProgramMoveCtor(dst, src) ==
  /\ ~terminated /\ ~program_live[dst] /\ program_live[src]
  /\ program_live' = [program_live EXCEPT ![dst] = TRUE]
  /\ program_handle_' = Swap([program_handle_ EXCEPT ![dst] = 0], dst, src)
  /\ uniforms_' = Swap([uniforms_ EXCEPT ![dst] = EmptyMap], dst, src)
  /\ queries' = [queries EXCEPT ![dst] = [n \in Names |-> 0]]
  /\ last' = Op("ShaderProgram(ShaderProgram&&)", dst, src, "", 0, "returned", {})
  /\ UNCHANGED <<shader_live, shader_handle_, glNext, glShader, glProgram,
                 glAttached, glReleases, glCurrent, terminated>>

\* ------------------------------------------------------------------ Sprite
\* An exact rational n/d.
Rat(n, d) == [n |-> n, d |-> d]
RatEq(a, b) == a.n * b.d = b.n * a.d

\* smk::Rectangle, an aggregate {left, right, top, bottom}: a braced list
\* initialises the fields in that order.
Rectangle(a, b, c, d) == [left |-> a, right |-> b, top |-> c, bottom |-> d]
width(r) == r.right - r.left
height(r) == r.bottom - r.top

Dims == 1..MaxDim
Coords == 0..MaxCoord
Rectangles == {Rectangle(a, b, c, d) : a \in Coords, b \in Coords, c \in Coords, d \in Coords}

Vertex(x, y, u, v) == [x |-> x, y |-> y, u |-> u, v |-> v]

\* The mutant of TextureRectangleVertices: the second and third vertex exchanged.
TextureRectangleVerticesBadOrder(tw, th, rectangle) ==
  LET l == Rat(2 * rectangle.left + 1, 2 * tw)
      r == Rat(2 * rectangle.right - 1, 2 * tw)
      t == Rat(2 * rectangle.top + 1, 2 * th)
      b == Rat(2 * rectangle.bottom - 1, 2 * th)
      www == width(rectangle)
      hhh == height(rectangle)
  IN << Vertex(0, 0, l, t), Vertex(www, hhh, r, b), Vertex(0, hhh, l, b),
        Vertex(0, 0, l, t), Vertex(www, hhh, r, b), Vertex(www, 0, r, t) >>

\* The vertex array Sprite::SetTextureRectangle builds for a texture of size
\* tw x th: (x + 0.5) / tw is (2x + 1) / (2 tw), (x - 0.5) / tw is (2x - 1) / (2 tw).
TextureRectangleVertices(tw, th, rectangle) ==
  LET l == Rat(2 * rectangle.left + 1, 2 * tw)
      r == Rat(2 * rectangle.right - 1, 2 * tw)
      t == Rat(2 * rectangle.top + 1, 2 * th)
      b == Rat(2 * rectangle.bottom - 1, 2 * th)
      www == width(rectangle)
      hhh == height(rectangle)
  IN << Vertex(0, 0, l, t), Vertex(0, hhh, l, b), Vertex(www, hhh, r, b),
        Vertex(0, 0, l, t), Vertex(www, hhh, r, b), Vertex(www, 0, r, t) >>

\* The mutant of FramebufferVertices: v is not flipped.
FramebufferVerticesUnflipped(www, hhh) ==
  LET l == Rat(0, 1)
      r == Rat(1, 1)
      t == Rat(0, 1)
      b == Rat(1, 1)
  IN << Vertex(0, 0, l, t), Vertex(0, hhh, l, b), Vertex(www, hhh, r, b),
        Vertex(0, 0, l, t), Vertex(www, hhh, r, b), Vertex(www, 0, r, t) >>

\* The vertex array Sprite::Sprite(const Framebuffer&) builds for a color
\* texture of size www x hhh.
FramebufferVertices(www, hhh) ==
  LET l == Rat(0, 1)
      r == Rat(1, 1)
      t == Rat(0, 1)
      b == Rat(1, 1)
  IN << Vertex(0, 0, l, b), Vertex(0, hhh, l, t), Vertex(www, hhh, r, t),
        Vertex(0, 0, l, b), Vertex(www, hhh, r, t), Vertex(www, 0, r, b) >>

NoRectangle == Rectangle(0, 0, 0, 0)
SOp(op, rectangle) == [op |-> op, rectangle |-> rectangle]

\* Sprite::Sprite(const Texture&): SetTexture, then
\* SetTextureRectangle({0.f, 0.f, float(width), float(height)}).
SpriteFromTexture(tw, th) ==
  /\ ~sprite.built
  /\ sprite' = [built |-> TRUE, tw |-> tw, th |-> th,
                verts |-> TextureRectangleVertices(tw, th, Rectangle(0, 0, tw, th))]
  /\ slast' = SOp("Sprite(texture)", Rectangle(0, 0, tw, th))
  /\ UNCHANGED shaderVars

\* Sprite::Sprite(const Texture&, const Rectangle)
SpriteFromTextureRectangle(tw, th, rectangle) ==
  /\ ~sprite.built
  /\ sprite' = [built |-> TRUE, tw |-> tw, th |-> th,
                verts |-> TextureRectangleVertices(tw, th, rectangle)]
  /\ slast' = SOp("Sprite(texture, rectangle)", rectangle)
  /\ UNCHANGED shaderVars

\* Sprite::Sprite(const Framebuffer&)
SpriteFromFramebuffer(tw, th) ==
  /\ ~sprite.built
  /\ sprite' = [built |-> TRUE, tw |-> tw, th |-> th,
                verts |-> FramebufferVertices(tw, th)]
  /\ slast' = SOp("Sprite(framebuffer)", NoRectangle)
  /\ UNCHANGED shaderVars

\* Sprite::SetTextureRectangle(rectangle) on a sprite that has its texture.
SetTextureRectangle(rectangle) ==
  /\ sprite.built
  /\ sprite' = [sprite EXCEPT !.verts =
                  TextureRectangleVertices(sprite.tw, sprite.th, rectangle)]
  /\ slast' = SOp("SetTextureRectangle", rectangle)
  /\ UNCHANGED shaderVars

\* ------------------------------------------------------- the specifications
Init ==
  /\ shader_live = [s \in Shaders |-> FALSE]
  /\ shader_handle_ = [s \in Shaders |-> 0]
  /\ program_live = [p \in Programs |-> FALSE]
  /\ program_handle_ = [p \in Programs |-> 0]
  /\ uniforms_ = [p \in Programs |-> EmptyMap]
  /\ queries = [p \in Programs |-> [n \in Names |-> 0]]
  /\ glNext = 1
  /\ glShader = [h \in Handles |-> "none"]
  /\ glProgram = [h \in Handles |-> "none"]
  /\ glAttached = [h \in Handles |-> {}]
  /\ glReleases = [h \in Handles0 |-> 0]
  /\ glCurrent = 0
  /\ terminated = FALSE
  /\ last = Op("start", 0, 0, "", 0, "", {})
  /\ sprite = [built |-> FALSE, tw |-> 1, th |-> 1, verts |-> <<>>]
  /\ slast = SOp("start", NoRectangle)

\* Construction, moves and destruction of the two wrappers; AddShader is the
\* operation that gives a ShaderProgram its handle.
LifecycleNext ==
  \/ \E s \in Shaders : FromString(s) /\ UNCHANGED spriteVars
  \/ \E s \in Shaders : FromFile(s) /\ UNCHANGED spriteVars
  \/ \E s \in Shaders : ShaderDefaultCtor(s) /\ UNCHANGED spriteVars
  \/ \E s \in Shaders : ShaderDtor(s) /\ UNCHANGED spriteVars
  \/ \E dst \in Shaders, src \in Shaders : ShaderMoveAssign(dst, src) /\ UNCHANGED spriteVars
  \/ \E dst \in Shaders, src \in Shaders : ShaderMoveCtor(dst, src) /\ UNCHANGED spriteVars
  \/ \E p \in Programs : ProgramCtor(p) /\ UNCHANGED spriteVars
  \/ \E p \in Programs, s \in Shaders, created \in Handles0 :
        AddShader(p, s, created) /\ UNCHANGED spriteVars
  \/ \E p \in Programs : ProgramDtor(p) /\ UNCHANGED spriteVars
  \/ \E dst \in Programs, src \in Programs : ProgramMoveAssign(dst, src) /\ UNCHANGED spriteVars
  \/ \E dst \in Programs, src \in Programs : ProgramMoveCtor(dst, src) /\ UNCHANGED spriteVars

SpecLifecycle == Init /\ [][LifecycleNext]_vars

\* The calls made on a ShaderProgram that is never the source or the
\* destination of a move, with the Shaders it is given.
CallNext ==
  \/ \E s \in Shaders : FromString(s) /\ UNCHANGED spriteVars
  \/ \E s \in Shaders : ShaderDtor(s) /\ UNCHANGED spriteVars
  \/ \E p \in CallPrograms : ProgramCtor(p) /\ UNCHANGED spriteVars
  \/ \E p \in CallPrograms, s \in Shaders, created \in Handles0 :
        AddShader(p, s, created) /\ UNCHANGED spriteVars
  \/ \E p \in CallPrograms, result \in BOOLEAN : Link(p, result) /\ UNCHANGED spriteVars
  \/ \E p \in CallPrograms, name \in Names : Uniform(p, name, "Uniform") /\ UNCHANGED spriteVars
  \/ \E p \in CallPrograms, name \in Names : SetUniform(p, name) /\ UNCHANGED spriteVars
  \/ \E p \in CallPrograms : Use(p) /\ UNCHANGED spriteVars
  \/ \E p \in CallPrograms : Unuse(p) /\ UNCHANGED spriteVars
  \/ \E p \in CallPrograms : GetHandle(p) /\ UNCHANGED spriteVars
  \/ \E p \in CallPrograms : ProgramDtor(p) /\ UNCHANGED spriteVars

SpecCalls == Init /\ [][CallNext]_vars

SpriteNext ==
  \/ \E tw \in Dims, th \in Dims : SpriteFromTexture(tw, th)
  \/ \E tw \in Dims, th \in Dims, rectangle \in Rectangles :
        SpriteFromTextureRectangle(tw, th, rectangle)
  \/ \E tw \in Dims, th \in Dims : SpriteFromFramebuffer(tw, th)
  \/ \E rectangle \in Rectangles : SetTextureRectangle(rectangle)

SpecSprite == Init /\ [][SpriteNext]_vars

\* ------------------------------------------------------------------ claims
ShaderMoves == {"Shader(Shader&&)", "Shader::operator="}
ProgramMoves == {"ShaderProgram(ShaderProgram&&)", "ShaderProgram::operator="}
MoveCtors == {"Shader(Shader&&)", "ShaderProgram(ShaderProgram&&)"}

AllDestroyed ==
  /\ \A s \in Shaders : ~shader_live[s]
  /\ \A p \in Programs : ~program_live[p]

\* The live wrappers that hold the name h.
Holders(h) ==
  Cardinality({s \in Shaders : shader_live[s] /\ shader_handle_[s] = h})
  + Cardinality({p \in Programs : program_live[p] /\ program_handle_[p] = h})

\* C1: a move-construction leaves the source's handle at zero; no release call
\* is ever made with the name zero (a wrapper whose handle is zero releases
\* nothing); no name is released twice; and in a running process, once every
\* wrapper is destroyed, every name that was created has been released
\* exactly once.
C1_ReleasedExactlyOnce ==
  /\ last.op = "Shader(Shader&&)" => shader_handle_[last.other] = 0
  /\ last.op = "ShaderProgram(ShaderProgram&&)" => program_handle_[last.other] = 0
  /\ glReleases[0] = 0
  /\ \A h \in Handles : glReleases[h] <= 1
  /\ (~terminated /\ AllDestroyed) =>
       \A h \in Handles : h < glNext => glReleases[h] = 1

\* C1 witness: two names were created, both were released once, every wrapper
\* is gone and the last one destroyed was a wrapper with a zero handle.
C1_Witness ==
  /\ AllDestroyed /\ ~terminated
  /\ glNext >= 3 /\ glReleases[1] = 1 /\ glReleases[2] = 1
  /\ last.op = "~Shader" /\ last.out = "nothing"

\* C2 as stated: every move between two wrappers hands the source's handle to
\* the destination and leaves the source's handle zero, and no name is held
\* by two live wrappers.
C2_MoveZeroesSource ==
  [][/\ (last'.op \in ShaderMoves /\ last'.obj # last'.other) =>
          /\ shader_handle_'[last'.obj] = shader_handle_[last'.other]
          /\ shader_handle_'[last'.other] = 0
     /\ (last'.op \in ProgramMoves /\ last'.obj # last'.other) =>
          /\ program_handle_'[last'.obj] = program_handle_[last'.other]
          /\ program_handle_'[last'.other] = 0
     /\ \A h \in Handles : Holders(h)' <= 1]_vars

\* C2 as amended: every move hands the source's handle to the destination and
\* the destination's previous handle to the source (zero for a
\* move-construction), and no name is held by two live wrappers.
C2_MoveExchanges ==
  [][/\ last'.op \in ShaderMoves =>
          /\ shader_handle_'[last'.obj] = shader_handle_[last'.other]
          /\ shader_handle_'[last'.other] =
               IF last'.op \in MoveCtors THEN 0 ELSE shader_handle_[last'.obj]
     /\ last'.op \in ProgramMoves =>
          /\ program_handle_'[last'.obj] = program_handle_[last'.other]
          /\ program_handle_'[last'.other] =
               IF last'.op \in MoveCtors THEN 0 ELSE program_handle_[last'.obj]
     /\ \A h \in Handles : Holders(h)' <= 1]_vars

\* C2 witness: a move-assignment between two Shaders that both held a name.
C2_Witness ==
  /\ last.op = "Shader::operator=" /\ last.obj # last.other
  /\ shader_handle_[last.obj] # 0 /\ shader_handle_[last.other] # 0

\* C3: a ShaderProgram issues at most one glGetUniformLocation per name; every
\* lookup returns the value stored for the name, and a stored value (the
\* not-found sentinel included) is never changed or queried again.
C3_QueriedOnce ==
  [][/\ \A p \in Programs : \A n \in Names : queries'[p][n] <= 1
     /\ last'.op \in {"Uniform", "SetUniform"} =>
          /\ last'.name \in DOMAIN uniforms_'[last'.obj]
          /\ uniforms_'[last'.obj][last'.name] = last'.ret
     /\ \A p \in Programs : \A n \in DOMAIN uniforms_[p] :
          (program_live[p] /\ program_live'[p]) =>
             /\ n \in DOMAIN uniforms_'[p]
             /\ uniforms_'[p][n] = uniforms_[p][n]
             /\ queries'[p][n] = queries[p][n]]_vars

\* C3 witness: a second Uniform of an unknown name answered from the cache
\* with the sentinel, after exactly one driver query.
C3_Witness ==
  /\ last.op = "Uniform" /\ last.out = "cached" /\ last.ret = -1
  /\ last.name = "nope" /\ queries[last.obj]["nope"] = 1

\* C4: a ShaderProgram whose handle is zero keeps it zero under every call
\* other than AddShader on it (Link, Uniform, SetUniform, Use, Unuse,
\* GetHandle), and Use on it binds the program zero.
C4_NoHandleWithoutAddShader ==
  [][\A p \in Programs :
       (/\ program_live[p] /\ program_live'[p]
        /\ program_handle_[p] = 0
        /\ ~(last'.op = "AddShader" /\ last'.obj = p)) =>
          /\ program_handle_'[p] = 0
          /\ (last'.op = "Use" /\ last'.obj = p) => glCurrent' = 0]_vars

\* C4 witness: Use on a program that was looked up but never given a shader.
C4_Witness ==
  /\ last.op = "Use" /\ program_handle_[last.obj] = 0 /\ glCurrent = 0
  /\ DOMAIN uniforms_[last.obj] = Names

\* C5: FromString / FromFile either return a Shader with a non-zero handle
\* whose compile status is success, or throw, or print the compiler's log and
\* terminate the process; no live Shader holds a name that failed to compile.
C5_NoUnusableShader ==
  /\ last.op \in {"FromString", "FromFile"} =>
       /\ last.out \in {"returned", "throw", "exit"}
       /\ last.out = "returned" =>
            /\ ~terminated /\ shader_live[last.obj]
            /\ shader_handle_[last.obj] \in Handles
            /\ glShader[shader_handle_[last.obj]] = "compiled"
       /\ last.out = "throw" => ~shader_live[last.obj]
       /\ last.out = "exit" => terminated /\ "log" \in last.msgs
  /\ \A h \in Handles : glShader[h] = "failed" => terminated
  /\ \A s \in Shaders : (shader_live[s] /\ shader_handle_[s] # 0) =>
       glShader[shader_handle_[s]] = "compiled"

\* C5 witness: a compile error was printed and the process has terminated.
C5_Witness ==
  /\ terminated /\ last.op = "FromString" /\ last.out = "exit"
  /\ "log" \in last.msgs

\* C6 as stated: a failed Link is logged and does not terminate the process,
\* and GetHandle never returns the name of a program whose link failed.
C6_FailedLinkDetectable ==
  /\ (last.op = "Link" /\ last.out = "failed") =>
       ~terminated /\ "[Error] linkage error" \in last.msgs
  /\ (last.op = "GetHandle" /\ last.ret # 0) => glProgram[last.ret] # "failed"

\* C10 as stated: every entry of a live program's uniform cache equals what
\* the driver would answer now for that name on the program's handle.
C10_CacheCoherent ==
  \A p \in Programs : program_live[p] =>
    \A n \in DOMAIN uniforms_[p] :
      uniforms_[p][n] = UniformLocation(program_handle_[p], n)

TextureOps == {"Sprite(texture)", "Sprite(texture, rectangle)", "SetTextureRectangle"}

Positions(w, h) == << <<0, 0>>, <<0, h>>, <<w, h>>, <<0, 0>>, <<w, h>>, <<w, 0>> >>

\* C8: a built sprite has exactly 6 vertices whose positions are, in order,
\* TL, BL, BR, TL, BR, TR: with w = right - left and h = bottom - top after
\* SetTextureRectangle (a zero-area rectangle included), and with w, h the
\* framebuffer's size after Sprite(framebuffer).
C8_TwoTriangleLayout ==
  sprite.built =>
    LET R == slast.rectangle
        pos == [i \in 1..Len(sprite.verts) |-> <<sprite.verts[i].x, sprite.verts[i].y>>]
    IN /\ Len(sprite.verts) = 6
       /\ slast.op \in TextureOps => pos = Positions(R.right - R.left, R.bottom - R.top)
       /\ slast.op = "Sprite(framebuffer)" => pos = Positions(sprite.tw, sprite.th)

\* C8 witness: SetTextureRectangle with a zero-area rectangle away from the origin.
C8_Witness ==
  /\ slast.op = "SetTextureRectangle"
  /\ slast.rectangle.left = slast.rectangle.right /\ slast.rectangle.left > 0
  /\ slast.rectangle.top = slast.rectangle.bottom /\ slast.rectangle.top > 0
  /\ Len(sprite.verts) = 6

\* C9: a framebuffer sprite spans (0,0)-(W,H), u is 0 at x = 0 and 1 at x = W,
\* and v is flipped: 1 at y = 0 and 0 at y = H.
C9_FramebufferFlipped ==
  slast.op = "Sprite(framebuffer)" =>
    /\ \A i \in 1..Len(sprite.verts) :
         LET vx == sprite.verts[i] IN
         /\ vx.x \in {0, sprite.tw} /\ vx.y \in {0, sprite.th}
         /\ vx.x = 0 => RatEq(vx.u, Rat(0, 1))
         /\ vx.x = sprite.tw => RatEq(vx.u, Rat(1, 1))
         /\ vx.y = 0 => RatEq(vx.v, Rat(1, 1))
         /\ vx.y = sprite.th => RatEq(vx.v, Rat(0, 1))
    /\ \E i \in 1..Len(sprite.verts) : sprite.verts[i].x = 0 /\ sprite.verts[i].y = 0
    /\ \E i \in 1..Len(sprite.verts) :
         sprite.verts[i].x = sprite.tw /\ sprite.verts[i].y = sprite.th

\* C9 witness: a sprite built from a framebuffer that is not square.
C9_Witness ==
  /\ slast.op = "Sprite(framebuffer)" /\ sprite.built
  /\ sprite.tw # sprite.th

====
